---- MODULE Spec2Model ----
(***************************************************************************)
(* The scheduled-post store of the Social Media Management Suite MCP       *)
(* server: schedule_post and manage_scheduled_posts of                     *)
(* social-media-mcp-server/mcp_social_server.py, with the JSON file they   *)
(* load and save, the wall clock they read and the uuid they draw.         *)
(*                                                                         *)
(* The tools are coroutines without an await: on one server each call runs *)
(* from its load to its save in one step (Spec).  Two servers on the same  *)
(* data directory run their calls load by load and save by save            *)
(* (SpecOverlap); calls holds those calls in flight.  competitors_file is  *)
(* the file of CompetitorAnalysis (utils/competitor_analysis.py).          *)
(*                                                                         *)
(* Strings the handlers take apart are sequences of pieces: a piece is a   *)
(* run of letters ("Twitter"), a blank (" ") or a comma (",").  A schedule *)
(* time string is the tuple of its numeric fields <<day, hour, minute>>    *)
(* (year and month fixed), or <<>> for text that does not fit the pattern. *)
(* Time is counted in seconds since day 1, 00:00:00.                       *)
(***************************************************************************)
EXTENDS Integers, Sequences, FiniteSets, TLC

VARIABLES SCHEDULED_POSTS_FILE, now, last, calls, competitors_file

vars == <<SCHEDULED_POSTS_FILE, now, last, calls, competitors_file>>

(* ------------------------------ bounds -------------------------------- *)

MaxPosts == 2

MaxTicks == 2

(* ---------------------------- time and clock --------------------------- *)

SecondsPerMinute == 60

SecondsPerHour == 3600

SecondsPerDay == 86400

HoursPerDay == 24

(* the clock is read at whole minutes: a schedule time (minute precision)  *)
(* is then ahead of, equal to, or behind a reading                         *)
ClockStep == SecondsPerMinute

ClockEnd == MaxTicks * ClockStep

(* datetime.strptime(schedule_time, "%Y-%m-%d %H:%M"): the fields must fit *)
(* the pattern and lie in range, else ValueError.                          *)
strptime(s) ==
    IF /\ Len(s) = 3
       /\ s[1] \in 1..31
       /\ s[2] \in 0..(HoursPerDay - 1)
       /\ s[3] \in 0..(SecondsPerMinute - 1)
    THEN [ok |-> TRUE,
          t  |-> (s[1] - 1) * SecondsPerDay + s[2] * SecondsPerHour
                 + s[3] * SecondsPerMinute]
    ELSE [ok |-> FALSE, t |-> 0]

(* accepts a schedule time equal to the clock reading *)
is_past_mut(schedule_datetime, t) == schedule_datetime < t

(* line 212: schedule_datetime <= datetime.now() *)
is_past(schedule_datetime, t) == schedule_datetime <= t

(* timedelta.days / timedelta.seconds of a duration d (in seconds) *)
td_days(d) == d \div SecondsPerDay

td_seconds(d) == d % SecondsPerDay

(* takes the minutes from the whole duration, not from the remainder *)
time_str_mut(d, units) ==
    LET days    == td_days(d)
        hours   == td_seconds(d) \div SecondsPerHour
        minutes == td_seconds(d) \div SecondsPerMinute
    IN  (IF days > 0 THEN << <<days, units[1]>> >> ELSE <<>>)
        \o (IF hours > 0 THEN << <<hours, units[2]>> >> ELSE <<>>)
        \o (IF minutes > 0 THEN << <<minutes, units[3]>> >> ELSE <<>>)

(* lines 244-257 and 598-611: the parts of the countdown that are > 0, each *)
(* a pair <<number, unit>>; a fixed text is the pair <<0, text>>.           *)
time_str(d, units) ==
    LET days    == td_days(d)
        hours   == td_seconds(d) \div SecondsPerHour
        minutes == (td_seconds(d) % SecondsPerHour) \div SecondsPerMinute
    IN  (IF days > 0 THEN << <<days, units[1]>> >> ELSE <<>>)
        \o (IF hours > 0 THEN << <<hours, units[2]>> >> ELSE <<>>)
        \o (IF minutes > 0 THEN << <<minutes, units[3]>> >> ELSE <<>>)

(* ------------------------------ strings -------------------------------- *)

(* str.lower() on one piece *)
lower_piece(p) ==
    CASE p = "Twitter"  -> "twitter"
      [] p = "FACEBOOK" -> "facebook"
      [] p = "Bogus"    -> "bogus"
      [] p = "LIST"     -> "list"
      [] p = "Cancel"   -> "cancel"
      [] p = "Instagram" -> "instagram"
      [] p = "Acme"     -> "acme"
      [] p = "ACME"     -> "acme"
      [] p = "Globex"   -> "globex"
      [] OTHER          -> p

lower(s) == [i \in 1..Len(s) |-> lower_piece(s[i])]

RECURSIVE lstrip(_)
lstrip(s) == IF s # <<>> /\ Head(s) = " " THEN lstrip(Tail(s)) ELSE s

RECURSIVE rstrip(_)
rstrip(s) ==
    IF s # <<>> /\ s[Len(s)] = " " THEN rstrip(SubSeq(s, 1, Len(s) - 1)) ELSE s

strip(s) == rstrip(lstrip(s))

RECURSIVE split_from(_, _, _)
split_from(s, cur, acc) ==
    IF s = <<>> THEN Append(acc, cur)
    ELSE IF Head(s) = "," THEN split_from(Tail(s), <<>>, Append(acc, cur))
    ELSE split_from(Tail(s), Append(cur, Head(s)), acc)

(* str.split(",") *)
split(s) == split_from(s, <<>>, <<>>)

RECURSIVE filter_seq(_, _)
filter_seq(s, keep) ==
    IF s = <<>> THEN <<>>
    ELSE IF Head(s) \in keep THEN <<Head(s)>> \o filter_seq(Tail(s), keep)
    ELSE filter_seq(Tail(s), keep)

Range(s) == {s[i] : i \in 1..Len(s)}

(* --------------------------- the stored file --------------------------- *)

FileAbsent == [kind |-> "absent", posts |-> <<>>]

FileMalformed == [kind |-> "malformed", posts |-> <<>>]

FileList(posts) == [kind |-> "list", posts |-> posts]

(* a missing file is not answered: FileNotFoundError leaves the loader *)
load_json_data_mut(file) ==
    CASE file.kind = "list" -> [raised |-> FALSE, data |-> file.posts]
      [] OTHER              -> [raised |-> TRUE,  data |-> <<>>]

(* lines 59-65: FileNotFoundError gives []; a JSONDecodeError is not caught *)
load_json_data(file) ==
    CASE file.kind = "absent"    -> [raised |-> FALSE, data |-> <<>>]
      [] file.kind = "malformed" -> [raised |-> TRUE,  data |-> <<>>]
      [] OTHER                   -> [raised |-> FALSE, data |-> file.posts]

(* drops the cancelled records when it saves *)
save_json_data_purge(file, data, io) ==
    CASE io = "ok"         -> [raised |-> FALSE,
                               file |-> FileList(filter_seq(data,
                                   {post \in Range(data) : post.status # "cancelled"}))]
      [] io = "fail_open"  -> [raised |-> TRUE,  file |-> file]
      [] OTHER             -> [raised |-> TRUE,  file |-> FileMalformed]

(* a failed save is swallowed, as DataManager.save_json does *)
save_json_data_mut(file, data, io) ==
    CASE io = "ok"         -> [raised |-> FALSE, file |-> FileList(data)]
      [] io = "fail_open"  -> [raised |-> FALSE, file |-> file]
      [] OTHER             -> [raised |-> FALSE, file |-> FileMalformed]

(* lines 67-71: makedirs/open may fail before the file is touched; a write *)
(* that fails after open(filename, 'w') leaves a truncated file.           *)
save_json_data(file, data, io) ==
    CASE io = "ok"         -> [raised |-> FALSE, file |-> FileList(data)]
      [] io = "fail_open"  -> [raised |-> TRUE,  file |-> file]
      [] OTHER             -> [raised |-> TRUE,  file |-> FileMalformed]

IOs == {"ok", "fail_open", "fail_write"}

(* ----------------------------- schedule_post ---------------------------- *)

(* line 216 *)
valid_platforms == << <<"twitter">>, <<"facebook">>, <<"instagram">>, <<"linkedin">> >>

(* line 217: [p.strip().lower() for p in platforms.split(",")] *)
platform_list(platforms) ==
    LET parts == split(platforms)
    IN  [i \in 1..Len(parts) |-> lower(strip(parts[i]))]

(* reports the whole platform list instead of the offending entries *)
invalid_platforms_mut(plist) ==
    IF Range(plist) \ Range(valid_platforms) # {} THEN plist ELSE <<>>

(* line 218: [p for p in platform_list if p not in valid_platforms] *)
invalid_platforms(plist) == filter_seq(plist, Range(plist) \ Range(valid_platforms))

(* Python's None where a timestamp (a number of seconds >= 0) may stand *)
None == 0 - 1

(* the new entry is born with a cancellation stamp *)
new_post_mut(post_id, content, plist, schedule_time, media_url, created_at) ==
    [id            |-> post_id,
     content       |-> content,
     platforms     |-> plist,
     schedule_time |-> schedule_time,
     media_url     |-> media_url,
     status        |-> "scheduled",
     created_at    |-> created_at,
     posted_at     |-> None,
     cancelled_at  |-> created_at]

(* lines 228-237: the new entry; it has no "cancelled_at" key *)
new_post(post_id, content, plist, schedule_time, media_url, created_at) ==
    [id            |-> post_id,
     content       |-> content,
     platforms     |-> plist,
     schedule_time |-> schedule_time,
     media_url     |-> media_url,
     status        |-> "scheduled",
     created_at    |-> created_at,
     posted_at     |-> None]

(* lines 244-257 *)
time_until_str_long(d) ==
    IF time_str(d, <<"day", "hour", "minute">>) # <<>>
    THEN time_str(d, <<"day", "hour", "minute">>)
    ELSE << <<0, "less than a minute">> >>

(* appends and saves before it validates the platforms *)
schedule_post_mut(file, content, platforms, schedule_time, media_url, t1, t2, t3, post_id, io) ==
    LET parsed == strptime(schedule_time)
        plist  == platform_list(platforms)
        loaded == load_json_data(file)
        posts  == Append(loaded.data,
                         new_post(post_id, content, plist, schedule_time, media_url, t2))
        saved  == save_json_data(file, posts, io)
    IN  IF ~parsed.ok
        THEN [ret |-> [kind |-> "InvalidFormat"], file |-> file]
        ELSE IF is_past(parsed.t, t1)
        THEN [ret |-> [kind |-> "PastSchedule"], file |-> file]
        ELSE IF loaded.raised
        THEN [ret |-> [kind |-> "InvalidFormat"], file |-> file]
        ELSE IF invalid_platforms(plist) # <<>>
        THEN [ret  |-> [kind |-> "InvalidPlatform", invalid |-> invalid_platforms(plist)],
              file |-> save_json_data(file, posts, "ok").file]
        ELSE IF saved.raised
        THEN [ret |-> [kind |-> "Raised"], file |-> saved.file]
        ELSE [ret  |-> [kind |-> "Scheduled", post_id |-> post_id,
                        time_until |-> time_until_str_long(parsed.t - t3)],
              file |-> saved.file]

(* looks at the platforms before it looks at the schedule time *)
schedule_post_platforms_first(file, content, platforms, schedule_time, media_url, t1, t2, t3, post_id, io) ==
    LET parsed == strptime(schedule_time)
        plist  == platform_list(platforms)
        loaded == load_json_data(file)
        posts  == Append(loaded.data,
                         new_post(post_id, content, plist, schedule_time, media_url, t2))
        saved  == save_json_data(file, posts, io)
    IN  IF invalid_platforms(plist) # <<>>
        THEN [ret  |-> [kind |-> "InvalidPlatform", invalid |-> invalid_platforms(plist)],
              file |-> file]
        ELSE IF ~parsed.ok
        THEN [ret |-> [kind |-> "InvalidFormat"], file |-> file]
        ELSE IF is_past(parsed.t, t1)
        THEN [ret |-> [kind |-> "PastSchedule"], file |-> file]
        ELSE IF loaded.raised
        THEN [ret |-> [kind |-> "InvalidFormat"], file |-> file]
        ELSE IF saved.raised
        THEN [ret |-> [kind |-> "Raised"], file |-> saved.file]
        ELSE [ret  |-> [kind |-> "Scheduled", post_id |-> post_id,
                        time_until |-> time_until_str_long(parsed.t - t3)],
              file |-> saved.file]

(* puts the new post in front of the collection *)
schedule_post_prepend(file, content, platforms, schedule_time, media_url, t1, t2, t3, post_id, io) ==
    LET parsed == strptime(schedule_time)
        plist  == platform_list(platforms)
        loaded == load_json_data(file)
        posts  == <<new_post(post_id, content, plist, schedule_time, media_url, t2)>>
                  \o loaded.data
        saved  == save_json_data(file, posts, io)
    IN  IF ~parsed.ok
        THEN [ret |-> [kind |-> "InvalidFormat"], file |-> file]
        ELSE IF is_past(parsed.t, t1)
        THEN [ret |-> [kind |-> "PastSchedule"], file |-> file]
        ELSE IF invalid_platforms(plist) # <<>>
        THEN [ret  |-> [kind |-> "InvalidPlatform", invalid |-> invalid_platforms(plist)],
              file |-> file]
        ELSE IF loaded.raised
        THEN (* json.JSONDecodeError is a ValueError: line 269 answers it *)
             [ret |-> [kind |-> "InvalidFormat"], file |-> file]
        ELSE IF saved.raised
        THEN (* an OSError is no ValueError: it leaves the handler *)
             [ret |-> [kind |-> "Raised"], file |-> saved.file]
        ELSE [ret  |-> [kind |-> "Scheduled", post_id |-> post_id,
                        time_until |-> time_until_str_long(parsed.t - t3)],
              file |-> saved.file]

(* lines 208-270.  t1, t2, t3 are the three readings of datetime.now()     *)
(* (lines 212, 235, 244), post_id the value of str(uuid.uuid4())[:8] and   *)
(* io the fate of the save.  The result is the returned message (ret) and  *)
(* the file the call leaves behind.                                        *)
schedule_post(file, content, platforms, schedule_time, media_url, t1, t2, t3, post_id, io) ==
    LET parsed == strptime(schedule_time)
        plist  == platform_list(platforms)
        loaded == load_json_data(file)
        posts  == Append(loaded.data,
                         new_post(post_id, content, plist, schedule_time, media_url, t2))
        saved  == save_json_data(file, posts, io)
    IN  IF ~parsed.ok
        THEN [ret |-> [kind |-> "InvalidFormat"], file |-> file]
        ELSE IF is_past(parsed.t, t1)
        THEN [ret |-> [kind |-> "PastSchedule"], file |-> file]
        ELSE IF invalid_platforms(plist) # <<>>
        THEN [ret  |-> [kind |-> "InvalidPlatform", invalid |-> invalid_platforms(plist)],
              file |-> file]
        ELSE IF loaded.raised
        THEN (* json.JSONDecodeError is a ValueError: line 269 answers it *)
             [ret |-> [kind |-> "InvalidFormat"], file |-> file]
        ELSE IF saved.raised
        THEN (* an OSError is no ValueError: it leaves the handler *)
             [ret |-> [kind |-> "Raised"], file |-> saved.file]
        ELSE [ret  |-> [kind |-> "Scheduled", post_id |-> post_id,
                        time_until |-> time_until_str_long(parsed.t - t3)],
              file |-> saved.file]

(* ------------------------ manage_scheduled_posts ----------------------- *)

(* line 575 *)
valid_actions == << <<"list">>, <<"cancel">>, <<"modify">> >>

(* line 587: [post for post in scheduled_posts if post["status"] == "scheduled"] *)
(* keeps the cancelled posts in the listing *)
active_posts_mut(scheduled_posts) ==
    filter_seq(scheduled_posts, {p \in Range(scheduled_posts) : p.status # "posted"})

active_posts(scheduled_posts) ==
    filter_seq(scheduled_posts, {p \in Range(scheduled_posts) : p.status = "scheduled"})

(* shows a post that is due this very second as a countdown *)
time_until_str_short_mut(post, t) ==
    LET d == strptime(post.schedule_time).t - t
    IN  IF d >= 0
        THEN IF time_str(d, <<"d", "h", "m">>) # <<>>
             THEN time_str(d, <<"d", "h", "m">>)
             ELSE << <<0, "<1m">> >>
        ELSE << <<0, "OVERDUE">> >>

(* lines 595-615 *)
time_until_str_short(post, t) ==
    LET d == strptime(post.schedule_time).t - t
    IN  IF d > 0
        THEN IF time_str(d, <<"d", "h", "m">>) # <<>>
             THEN time_str(d, <<"d", "h", "m">>)
             ELSE << <<0, "<1m">> >>
        ELSE << <<0, "OVERDUE">> >>

(* lines 617-624: what the listing shows of one post *)
list_entry(post, t) ==
    [id            |-> post.id,
     content       |-> post.content,
     platforms     |-> post.platforms,
     schedule_time |-> post.schedule_time,
     time_until    |-> time_until_str_short(post, t),
     media_url     |-> post.media_url]

(* matches on the id alone, whatever the status *)
cancel_match_mut(post, post_id) == post.id = post_id

(* matches any scheduled post, whatever its id *)
cancel_match_anyid(post, post_id) == post.status = "scheduled"

(* line 636 *)
cancel_match(post, post_id) == post.id = post_id /\ post.status = "scheduled"

(* takes the last matching post instead of the first *)
cancel_index_last(scheduled_posts, post_id) ==
    IF \E i \in 1..Len(scheduled_posts) : cancel_match(scheduled_posts[i], post_id)
    THEN CHOOSE i \in 1..Len(scheduled_posts) :
            /\ cancel_match(scheduled_posts[i], post_id)
            /\ \A j \in (i + 1)..Len(scheduled_posts) :
                   ~cancel_match(scheduled_posts[j], post_id)
    ELSE 0

(* lines 635-640: the index of the first matching post, 0 if there is none *)
cancel_index(scheduled_posts, post_id) ==
    IF \E i \in 1..Len(scheduled_posts) : cancel_match(scheduled_posts[i], post_id)
    THEN CHOOSE i \in 1..Len(scheduled_posts) :
            /\ cancel_match(scheduled_posts[i], post_id)
            /\ \A j \in 1..(i - 1) : ~cancel_match(scheduled_posts[j], post_id)
    ELSE 0

(* treats a post whose time has come as sent *)
cancel_post_late(post, t) ==
    [k \in DOMAIN post \cup {"cancelled_at"} |->
        IF k = "status"
        THEN (IF strptime(post.schedule_time).t <= t THEN "posted" ELSE "cancelled")
        ELSE IF k = "cancelled_at" THEN t
        ELSE IF k = "posted_at" /\ strptime(post.schedule_time).t <= t THEN t
        ELSE post[k]]

(* stamps the cancellation time over created_at as well *)
cancel_post_touch(post, t) ==
    [k \in DOMAIN post \cup {"cancelled_at"} |->
        IF k = "status" THEN "cancelled"
        ELSE IF k \in {"cancelled_at", "created_at"} THEN t
        ELSE post[k]]

(* forgets the cancellation time *)
cancel_post_nostamp(post, t) ==
    [post EXCEPT !.status = "cancelled"]

(* writes the wrong terminal status *)
cancel_post_mut(post, t) ==
    [k \in DOMAIN post \cup {"cancelled_at"} |->
        IF k = "status" THEN (IF post.status = "scheduled" THEN "posted" ELSE "scheduled")
        ELSE IF k = "cancelled_at" THEN t
        ELSE post[k]]

(* lines 637-638 *)
cancel_post(post, t) ==
    [k \in DOMAIN post \cup {"cancelled_at"} |->
        IF k = "status" THEN "cancelled"
        ELSE IF k = "cancelled_at" THEN t
        ELSE post[k]]

(* lines 575-652.  t is the reading of datetime.now(), io the fate of the  *)
(* save.                                                                   *)
manage_scheduled_posts(file, action, post_id, t, io) ==
    LET act    == lower(action)
        loaded == load_json_data(file)
        posts  == loaded.data
        active == active_posts(posts)
        i      == cancel_index(posts, post_id)
        saved  == save_json_data(file, [posts EXCEPT ![i] = cancel_post(posts[i], t)], io)
    IN  IF act \notin Range(valid_actions)
        THEN [ret |-> [kind |-> "InvalidAction"], file |-> file]
        ELSE IF loaded.raised
        THEN [ret |-> [kind |-> "ErrorManaging"], file |-> file]
        ELSE IF act = <<"list">>
        THEN IF posts = <<>>
             THEN [ret |-> [kind |-> "NoPostsFound"], file |-> file]
             ELSE IF active = <<>>
             THEN [ret |-> [kind |-> "NoActivePosts"], file |-> file]
             ELSE [ret  |-> [kind    |-> "Listing",
                             entries |-> [n \in 1..Len(active) |-> list_entry(active[n], t)]],
                   file |-> file]
        ELSE IF act = <<"cancel">>
        THEN IF post_id = ""
             THEN [ret |-> [kind |-> "PostIdRequired"], file |-> file]
             ELSE IF i = 0
             THEN [ret |-> [kind |-> "NotFound", post_id |-> post_id], file |-> file]
             ELSE IF saved.raised
             THEN [ret |-> [kind |-> "ErrorManaging"], file |-> saved.file]
             ELSE [ret |-> [kind |-> "Cancelled", post_id |-> post_id], file |-> saved.file]
        ELSE [ret |-> [kind |-> "NotImplemented"], file |-> file]

(* ------------------------------- inputs -------------------------------- *)

(* the values str(uuid.uuid4())[:8] can take (line 227) *)
Ids == {"1f0e9a3c", "7b2d44e1"}

Contents == {"Launch day!"}

MediaUrls == {""}

PlatformInputs ==
    { <<"Twitter", ",", " ", "FACEBOOK", " ">>,
      <<"Bogus", ",", " ", ",", "twitter">> }

ScheduleTimeInputs == { <<1, 0, 0>>, <<1, 0, 1>>, <<1, 24, 0>> }

ActionInputs == { <<"LIST">>, <<"cancel">>, <<"modify">>, <<"delete">> }

PostIdInputs == Ids \cup {""}

(* a post id is passed along with the actions that are documented to take one *)
PostIdsFor(action) ==
    IF lower(action) \in {<<"cancel">>, <<"modify">>} THEN PostIdInputs ELSE {""}

Drifts == {0, ClockStep}

(* ----------------------------- state machine --------------------------- *)

NoCall == [op |-> "none"]

(* data/competitors.json: a JSON list of competitors, or text that is not  *)
(* JSON                                                                    *)
CompetitorsList(competitors) == [kind |-> "list", competitors |-> competitors]

CompetitorsMalformed == [kind |-> "malformed", competitors |-> <<>>]

(* the two servers of SpecOverlap *)
Procs == {1, 2}

(* no call in flight *)
IdleCalls ==
    [p \in Procs |-> [pc |-> "idle", op |-> "none", post_id |-> "",
                      snap |-> FileAbsent, ret |-> [kind |-> "none"]]]

Init ==
    /\ SCHEDULED_POSTS_FILE \in {FileAbsent, FileMalformed, FileList(<<>>)}
    /\ now = 0
    /\ last = NoCall
    /\ calls = IdleCalls
    /\ competitors_file = CompetitorsList(<<>>)

(* the wall clock advances between calls *)
Tick ==
    /\ now + ClockStep <= ClockEnd
    /\ now' = now + ClockStep
    /\ UNCHANGED <<SCHEDULED_POSTS_FILE, last, calls, competitors_file>>

(* one call of the schedule_post tool.  The uuid, the later clock readings  *)
(* and the fate of the save are drawn only when the call gets that far.    *)
SchedulePost ==
    \E content \in Contents, platforms \in PlatformInputs,
       schedule_time \in ScheduleTimeInputs, media_url \in MediaUrls :
        LET validated ==
                schedule_post(FileAbsent, content, platforms, schedule_time, media_url,
                              now, now, now, "", "ok").ret.kind = "Scheduled"
            reaches_save == validated /\ ~load_json_data(SCHEDULED_POSTS_FILE).raised
        IN  \E post_id \in IF reaches_save THEN Ids ELSE {""},
               io \in IF reaches_save THEN IOs ELSE {"unused"},
               d2 \in IF reaches_save THEN Drifts ELSE {0},
               d3 \in IF reaches_save THEN Drifts ELSE {0} :
                LET t2  == now + d2
                    t3  == t2 + d3
                    out == schedule_post(SCHEDULED_POSTS_FILE, content, platforms,
                                         schedule_time, media_url, now, t2, t3, post_id, io)
                IN  /\ t3 <= ClockEnd
                    /\ Len(out.file.posts) <= MaxPosts
                    /\ SCHEDULED_POSTS_FILE' = out.file
                    /\ now' = t3
                    /\ UNCHANGED <<calls, competitors_file>>
                    /\ last' = [op            |-> "schedule_post",
                                content       |-> content,
                                platforms     |-> platforms,
                                schedule_time |-> schedule_time,
                                media_url     |-> media_url,
                                t             |-> now,
                                io            |-> io,
                                before        |-> SCHEDULED_POSTS_FILE,
                                ret           |-> out.ret]

(* one call of the manage_scheduled_posts tool *)
ManageScheduledPosts ==
    \E action \in ActionInputs : \E post_id \in PostIdsFor(action) :
        LET reaches_save ==
                manage_scheduled_posts(SCHEDULED_POSTS_FILE, action, post_id, now, "ok")
                    .ret.kind = "Cancelled"
        IN  \E io \in IF reaches_save THEN IOs ELSE {"unused"} :
                LET out == manage_scheduled_posts(SCHEDULED_POSTS_FILE, action, post_id,
                                                  now, io)
                IN  /\ SCHEDULED_POSTS_FILE' = out.file
                    /\ now' = now
                    /\ UNCHANGED <<calls, competitors_file>>
                    /\ last' = [op      |-> "manage_scheduled_posts",
                                action  |-> action,
                                post_id |-> post_id,
                                t       |-> now,
                                io      |-> io,
                                before  |-> SCHEDULED_POSTS_FILE,
                                ret     |-> out.ret]

Next == Tick \/ SchedulePost \/ ManageScheduledPosts

Spec == Init /\ [][Next]_vars

(* ------------------- two servers on one data directory ------------------ *)

(* the arguments of the calls the two servers take: a valid creation with  *)
(* the uuid it will draw, or a cancellation of a post id                   *)
OverlapOps == {"create", "cancel"}

OverlapPlatforms == <<"Twitter", ",", " ", "FACEBOOK", " ">>

OverlapTime == <<1, 0, 1>>

(* the handler of a call, run on the collection the call has loaded *)
RunCall(call, file, io) ==
    IF call.op = "create"
    THEN schedule_post(file, "Launch day!", OverlapPlatforms, OverlapTime, "",
                       now, now, now, call.post_id, io)
    ELSE manage_scheduled_posts(file, <<"cancel">>, call.post_id, now, io)

(* the files the servers find: none, an empty collection, or the file one  *)
(* earlier creation left                                                   *)
StartFiles ==
    {FileAbsent, FileList(<<>>)} \cup
    { RunCall([op |-> "create", post_id |-> id], FileList(<<>>), "ok").file : id \in Ids }

InitOverlap ==
    /\ now = 0
    /\ SCHEDULED_POSTS_FILE \in StartFiles
    /\ last = NoCall
    /\ calls = IdleCalls
    /\ competitors_file = CompetitorsList(<<>>)

(* a server takes a call and runs it up to its load_json_data; a load that *)
(* raises ends the call there                                              *)
LoadStep(p) ==
    /\ calls[p].pc = "idle"
    /\ \E op \in OverlapOps, post_id \in Ids :
        LET call == [op |-> op, post_id |-> post_id] IN
        calls' = [calls EXCEPT ![p] =
                    IF load_json_data(SCHEDULED_POSTS_FILE).raised
                    THEN [pc |-> "done", op |-> op, post_id |-> post_id,
                          snap |-> SCHEDULED_POSTS_FILE,
                          ret |-> RunCall(call, SCHEDULED_POSTS_FILE, "unused").ret]
                    ELSE [pc |-> "loaded", op |-> op, post_id |-> post_id,
                          snap |-> SCHEDULED_POSTS_FILE,
                          ret |-> [kind |-> "none"]]]
    /\ UNCHANGED <<SCHEDULED_POSTS_FILE, now, last, competitors_file>>

(* the server runs the rest of the call on what it loaded: the change in   *)
(* memory and, when there is one, the save of the whole collection         *)
SaveStep(p) ==
    /\ calls[p].pc = "loaded"
    /\ LET reaches_save ==
               RunCall(calls[p], calls[p].snap, "ok").ret.kind \in {"Scheduled", "Cancelled"}
       IN  \E io \in IF reaches_save THEN IOs ELSE {"unused"} :
               LET out == RunCall(calls[p], calls[p].snap, io)
               IN  /\ SCHEDULED_POSTS_FILE' =
                          IF reaches_save /\ io # "fail_open"
                          THEN out.file ELSE SCHEDULED_POSTS_FILE
                   /\ calls' = [calls EXCEPT ![p].pc = "done", ![p].ret = out.ret]
    /\ UNCHANGED <<now, last, competitors_file>>

NextOverlap == \E p \in Procs : LoadStep(p) \/ SaveStep(p)

SpecOverlap == InitOverlap /\ [][NextOverlap]_vars

(* --------------------- two calls on one event loop ---------------------- *)

(* awaits between the load and the save *)
await_points_mut == {"loaded"}

(* the positions at which a handler awaits and the loop may run another    *)
(* call: the bodies of schedule_post and manage_scheduled_posts have no    *)
(* await, and their file I/O is synchronous                                *)
await_points == {}

(* the loop runs a step of p only while no other call is in mid-run *)
LoopRuns(p) ==
    \A q \in Procs \ {p} : calls[q].pc \in {"idle", "done"} \cup await_points

LoopLoadStep(p) == LoopRuns(p) /\ LoadStep(p)

LoopSaveStep(p) == LoopRuns(p) /\ SaveStep(p)

NextLoop == \E p \in Procs : LoopLoadStep(p) \/ LoopSaveStep(p)

SpecLoop == InitOverlap /\ [][NextLoop]_vars

(* ------------------------- the JSON text of a file ---------------------- *)

(* A Python value that json can write: None, a str (a sequence of pieces), *)
(* a list, or a dict (a list of items, each a key with its value).         *)
py_none == [tag |-> "none", s |-> <<>>, items |-> <<>>]

py_str(s) == [tag |-> "str", s |-> s, items |-> <<>>]

py_list(items) == [tag |-> "list", s |-> <<>>, items |-> items]

py_item(key, value) == [tag |-> "item", s |-> key, items |-> <<value>>]

py_dict(members) == [tag |-> "dict", s |-> <<>>, items |-> members]

(* the pieces json escapes in a string whatever the options, with the      *)
(* letter that follows the backslash                                       *)
EscapedPieces == {"\"", "\\", "\n"}

escape_letter(p) == IF p = "\n" THEN "n" ELSE p

(* the one piece outside ASCII that the inputs use, and its \uXXXX digits  *)
NonAscii == {"e-acute"}

unicode_digits(p) == "00e9"

RECURSIVE encode_pieces_mut(_, _)
(* writes the pieces of a string between the quotes without escaping the   *)
(* quote                                                                   *)
encode_pieces_mut(s, ensure_ascii) ==
    IF s = <<>> THEN <<>>
    ELSE (IF Head(s) \in EscapedPieces \ {"\""}
          THEN <<"\\", escape_letter(Head(s))>>
          ELSE IF Head(s) \in NonAscii /\ ensure_ascii
          THEN <<"\\", "u", unicode_digits(Head(s))>>
          ELSE <<Head(s)>>)
         \o encode_pieces_mut(Tail(s), ensure_ascii)

RECURSIVE encode_pieces(_, _)
(* json.encoder: the pieces of a string between the quotes *)
encode_pieces(s, ensure_ascii) ==
    IF s = <<>> THEN <<>>
    ELSE (IF Head(s) \in EscapedPieces
          THEN <<"\\", escape_letter(Head(s))>>
          ELSE IF Head(s) \in NonAscii /\ ensure_ascii
          THEN <<"\\", "u", unicode_digits(Head(s))>>
          ELSE <<Head(s)>>)
         \o encode_pieces(Tail(s), ensure_ascii)

encode_str(s, ensure_ascii) == <<"\"">> \o encode_pieces(s, ensure_ascii) \o <<"\"">>

(* indent=2: a newline and two blanks for every level *)
newline_indent(level) == <<"\n">> \o [i \in 1..level |-> "  "]

RECURSIVE json_dump(_, _, _)
(* json.dump(data, f, indent=2): the text of a value at a nesting level *)
json_dump(v, level, ensure_ascii) ==
    LET inner(i) ==
            IF v.tag = "dict"
            THEN encode_str(v.items[i].s, ensure_ascii) \o <<":", " ">>
                 \o json_dump(v.items[i].items[1], level + 1, ensure_ascii)
            ELSE json_dump(v.items[i], level + 1, ensure_ascii)
        body[i \in 0..Len(v.items)] ==
            IF i = 0 THEN <<>>
            ELSE body[i - 1] \o (IF i > 1 THEN <<",">> ELSE <<>>)
                 \o newline_indent(level + 1) \o inner(i)
        open  == IF v.tag = "dict" THEN "{" ELSE "["
        close == IF v.tag = "dict" THEN "}" ELSE "]"
    IN  CASE v.tag = "none" -> <<"null">>
          [] v.tag = "str"  -> encode_str(v.s, ensure_ascii)
          [] OTHER          -> IF v.items = <<>> THEN <<open, close>>
                               ELSE <<open>> \o body[Len(v.items)]
                                    \o newline_indent(level) \o <<close>>

(* json.decoder.  Every scanner answers [ok, val, rest]: whether the text  *)
(* fits, the value read and the text left after it.                        *)
Whitespace == {"\n", "  ", " "}

no_value == [ok |-> FALSE, val |-> py_none, rest |-> <<>>]

RECURSIVE skip_ws(_)
skip_ws(text) ==
    IF text # <<>> /\ Head(text) \in Whitespace THEN skip_ws(Tail(text)) ELSE text

(* the string whose opening quote has been read; acc is what was read of it *)
RECURSIVE scan_string(_, _)
scan_string(text, acc) ==
    IF text = <<>> THEN no_value
    ELSE IF Head(text) = "\""
    THEN [ok |-> TRUE, val |-> py_str(acc), rest |-> Tail(text)]
    ELSE IF Head(text) = "\n" THEN no_value
    ELSE IF Head(text) = "\\"
    THEN IF Len(text) >= 2 /\ text[2] \in {"\"", "\\"}
         THEN scan_string(SubSeq(text, 3, Len(text)), Append(acc, text[2]))
         ELSE IF Len(text) >= 2 /\ text[2] = "n"
         THEN scan_string(SubSeq(text, 3, Len(text)), Append(acc, "\n"))
         ELSE IF Len(text) >= 3 /\ text[2] = "u"
                 /\ \E p \in NonAscii : unicode_digits(p) = text[3]
         THEN scan_string(SubSeq(text, 4, Len(text)),
                          Append(acc, CHOOSE p \in NonAscii : unicode_digits(p) = text[3]))
         ELSE no_value
    ELSE scan_string(Tail(text), Append(acc, Head(text)))

RECURSIVE scan_once(_)
RECURSIVE scan_array(_, _)
RECURSIVE scan_object(_, _)

(* one JSON value at the head of the text *)
scan_once(text) ==
    IF text = <<>> THEN no_value
    ELSE CASE Head(text) = "null" -> [ok |-> TRUE, val |-> py_none, rest |-> Tail(text)]
           [] Head(text) = "\""   -> scan_string(Tail(text), <<>>)
           [] Head(text) = "["    -> scan_array(skip_ws(Tail(text)), <<>>)
           [] Head(text) = "{"    -> scan_object(skip_ws(Tail(text)), <<>>)
           [] OTHER               -> no_value

(* the array whose "[" has been read; acc holds the values read so far *)
scan_array(text, acc) ==
    IF text = <<>> THEN no_value
    ELSE IF Head(text) = "]" /\ acc = <<>>
    THEN [ok |-> TRUE, val |-> py_list(<<>>), rest |-> Tail(text)]
    ELSE LET v     == scan_once(text)
             after == skip_ws(v.rest)
         IN  IF ~v.ok \/ after = <<>> THEN no_value
             ELSE IF Head(after) = ","
             THEN scan_array(skip_ws(Tail(after)), Append(acc, v.val))
             ELSE IF Head(after) = "]"
             THEN [ok |-> TRUE, val |-> py_list(Append(acc, v.val)), rest |-> Tail(after)]
             ELSE no_value

(* the object whose "{" has been read; acc holds the items read so far *)
scan_object(text, acc) ==
    IF text = <<>> THEN no_value
    ELSE IF Head(text) = "}" /\ acc = <<>>
    THEN [ok |-> TRUE, val |-> py_dict(<<>>), rest |-> Tail(text)]
    ELSE IF Head(text) # "\"" THEN no_value
    ELSE LET k     == scan_string(Tail(text), <<>>)
             colon == skip_ws(k.rest)
             v     == scan_once(skip_ws(Tail(colon)))
             after == skip_ws(v.rest)
             item  == py_item(k.val.s, v.val)
         IN  IF ~k.ok \/ colon = <<>> THEN no_value
             ELSE IF Head(colon) # ":" THEN no_value
             ELSE IF ~v.ok \/ after = <<>> THEN no_value
             ELSE IF Head(after) = ","
             THEN scan_object(skip_ws(Tail(after)), Append(acc, item))
             ELSE IF Head(after) = "}"
             THEN [ok |-> TRUE, val |-> py_dict(Append(acc, item)), rest |-> Tail(after)]
             ELSE no_value

(* json.load(f): one value, with nothing but blanks around it *)
json_load(text) ==
    LET v == scan_once(skip_ws(text))
    IN  IF v.ok /\ skip_ws(v.rest) = <<>> THEN v ELSE no_value

(* -------------------- saving and loading the JSON text ------------------ *)

(* the file as text: absent, or the lexemes last written to it *)
NoFile == [kind |-> "absent", text |-> <<>>]

TextFile(text) == [kind |-> "text", text |-> text]

(* a write that fails after open(filename, 'w') leaves part of the text *)
truncated(text) == SubSeq(text, 1, Len(text) \div 2)

(* lines 59-65, on the text *)
load_json_data_text(file) ==
    IF file.kind = "absent" THEN [op |-> "load_json_data", ok |-> TRUE, data |-> py_list(<<>>)]
    ELSE IF json_load(file.text).ok
    THEN [op |-> "load_json_data", ok |-> TRUE, data |-> json_load(file.text).val]
    ELSE [op |-> "load_json_data", ok |-> FALSE, data |-> py_none]

(* lines 67-71, on the text: json.dump escapes everything outside ASCII *)
save_json_data_text(file, data, io) ==
    IF io = "ok" THEN TextFile(json_dump(data, 0, TRUE))
    ELSE TextFile(truncated(json_dump(data, 0, TRUE)))

(* DataManager.load_json: a text that is not JSON reads as [] *)
load_json(file) ==
    IF file.kind = "text" /\ json_load(file.text).ok
    THEN [op |-> "load_json", ok |-> TRUE, data |-> json_load(file.text).val]
    ELSE [op |-> "load_json", ok |-> TRUE, data |-> py_list(<<>>)]

(* DataManager.save_json: ensure_ascii=False, utf-8 *)
save_json(file, data, io) ==
    IF io = "ok" THEN TextFile(json_dump(data, 0, FALSE))
    ELSE TextFile(truncated(json_dump(data, 0, FALSE)))

(* the record of lines 228-237 as the dict json gets, for a content *)
py_post(content) ==
    py_dict(<< py_item(<<"id">>, py_str(<<"1f0e9a3c">>)),
               py_item(<<"content">>, py_str(content)),
               py_item(<<"platforms">>,
                       py_list(<<py_str(<<"twitter">>), py_str(<<"facebook">>)>>)),
               py_item(<<"schedule_time">>, py_str(<<"2025-01-01 00:01">>)),
               py_item(<<"media_url">>, py_str(<<>>)),
               py_item(<<"status">>, py_str(<<"scheduled">>)),
               py_item(<<"created_at">>, py_str(<<"2025-01-01T00:00:00">>)),
               py_item(<<"posted_at">>, py_none) >>)

(* contents with a quote, a newline and a letter outside ASCII, with a     *)
(* backslash before an n, and the empty content                            *)
TextContents ==
    { <<"Launch day!">>,
      <<"say ", "\"", "hi", "\"", "\n", "caf", "e-acute">>,
      <<"C:", "\\", "n", "ew">>,
      <<>> }

Collections ==
    { py_list([i \in 1..n |-> py_post(c[i])]) :
        n \in 0..MaxPosts, c \in [1..MaxPosts -> TextContents] }

InitRoundTrip ==
    /\ now = 0
    /\ SCHEDULED_POSTS_FILE = NoFile
    /\ last = NoCall
    /\ calls = IdleCalls
    /\ competitors_file = CompetitorsList(<<>>)

(* save_json_data(SCHEDULED_POSTS_FILE, data) *)
SaveJsonData ==
    \E data \in Collections, io \in {"ok", "fail_write"} :
        /\ SCHEDULED_POSTS_FILE' = save_json_data_text(SCHEDULED_POSTS_FILE, data, io)
        /\ last' = [op |-> "save_json_data", ok |-> io = "ok", data |-> data]
        /\ UNCHANGED <<now, calls, competitors_file>>

(* load_json_data(SCHEDULED_POSTS_FILE) *)
LoadJsonData ==
    /\ last' = load_json_data_text(SCHEDULED_POSTS_FILE)
    /\ UNCHANGED <<SCHEDULED_POSTS_FILE, now, calls, competitors_file>>

(* data_manager.save_json(filename, data) *)
SaveJson ==
    \E data \in Collections, io \in {"ok", "fail_write"} :
        /\ SCHEDULED_POSTS_FILE' = save_json(SCHEDULED_POSTS_FILE, data, io)
        /\ last' = [op |-> "save_json", ok |-> io = "ok", data |-> data]
        /\ UNCHANGED <<now, calls, competitors_file>>

(* data_manager.load_json(filename) *)
LoadJson ==
    /\ last' = load_json(SCHEDULED_POSTS_FILE)
    /\ UNCHANGED <<SCHEDULED_POSTS_FILE, now, calls, competitors_file>>

NextRoundTrip == SaveJsonData \/ LoadJsonData \/ SaveJson \/ LoadJson

SpecRoundTrip == InitRoundTrip /\ [][NextRoundTrip]_vars

(* ------------------------ the platforms of a creation ------------------- *)

(* platform texts: one name, a name twice in two spellings, two names with *)
(* a blank, the empty text, a trailing comma, a name that is not known     *)
PlatformTexts ==
    { <<"twitter">>,
      <<"Twitter", ",", "twitter">>,
      <<"linkedin", ",", " ", "Instagram">>,
      <<>>,
      <<"facebook", ",">>,
      <<"tiktok">> }

InitPlatforms ==
    /\ now = 0
    /\ SCHEDULED_POSTS_FILE = FileList(<<>>)
    /\ last = NoCall
    /\ calls = IdleCalls
    /\ competitors_file = CompetitorsList(<<>>)

(* schedule_post with a schedule time a minute ahead and one of the        *)
(* platform texts                                                          *)
SchedulePlatforms ==
    \E platforms \in PlatformTexts, post_id \in Ids :
        LET out == schedule_post(SCHEDULED_POSTS_FILE, "Launch day!", platforms,
                                 OverlapTime, "", now, now, now, post_id, "ok")
        IN  /\ Len(out.file.posts) <= MaxPosts
            /\ SCHEDULED_POSTS_FILE' = out.file
            /\ last' = [op            |-> "schedule_post",
                        content       |-> "Launch day!",
                        platforms     |-> platforms,
                        schedule_time |-> OverlapTime,
                        media_url     |-> "",
                        t             |-> now,
                        io            |-> "ok",
                        before        |-> SCHEDULED_POSTS_FILE,
                        ret           |-> out.ret]
            /\ UNCHANGED <<now, calls, competitors_file>>

NextPlatforms == SchedulePlatforms \/ ManageScheduledPosts

SpecPlatforms == InitPlatforms /\ [][NextPlatforms]_vars

(* --------------------------- the competitor store ----------------------- *)

(* _load_competitors: whatever goes wrong, the answer is [] *)
load_competitors(file) ==
    IF file.kind = "list" THEN file.competitors ELSE <<>>

(* _save_competitors: open(..., 'w') and json.dump, nothing caught *)
save_competitors(file, competitors, io) ==
    CASE io = "ok"         -> [raised |-> FALSE, file |-> CompetitorsList(competitors)]
      [] io = "fail_open"  -> [raised |-> TRUE,  file |-> file]
      [] OTHER             -> [raised |-> TRUE,  file |-> CompetitorsMalformed]

(* compares the names as they are written *)
name_exists_mut(competitors, name) ==
    \E i \in 1..Len(competitors) : competitors[i].name = name

(* line 33: any(comp["name"].lower() == name.lower() for comp in competitors) *)
name_exists(competitors, name) ==
    \E i \in 1..Len(competitors) : lower(competitors[i].name) = lower(name)

(* lines 29-50; t is the reading of datetime.now() *)
add_competitor(file, name, platforms, t, io) ==
    LET competitors == load_competitors(file)
        competitor  == [name          |-> name,
                        platforms     |-> platforms,
                        added_on      |-> t,
                        last_analyzed |-> None,
                        metrics       |-> <<>>]
        saved       == save_competitors(file, Append(competitors, competitor), io)
    IN  IF name_exists(competitors, name)
        THEN [ret |-> [kind |-> "AlreadyExists", name |-> name], file |-> file]
        ELSE IF saved.raised
        THEN [ret |-> [kind |-> "FailedToAdd", name |-> name], file |-> saved.file]
        ELSE [ret |-> [kind |-> "Added", name |-> name], file |-> saved.file]

(* lines 54-67 *)
remove_competitor(file, name, io) ==
    LET competitors == load_competitors(file)
        kept  == filter_seq(competitors,
                            {comp \in Range(competitors) : lower(comp.name) # lower(name)})
        saved == save_competitors(file, kept, io)
    IN  IF Len(kept) < Len(competitors)
        THEN IF saved.raised
             THEN [ret |-> [kind |-> "FailedToRemove", name |-> name], file |-> saved.file]
             ELSE [ret |-> [kind |-> "Removed", name |-> name], file |-> saved.file]
        ELSE [ret |-> [kind |-> "NotFound", name |-> name], file |-> file]

CompetitorNames == { <<"Acme">>, <<"ACME">>, <<"acme">>, <<"Globex">>, <<"globex">> }

CompetitorPlatforms == << <<"twitter", "@handle">> >>

(* ensure_data_file has written [] *)
InitCompetitors ==
    /\ now = 0
    /\ SCHEDULED_POSTS_FILE = FileAbsent
    /\ last = NoCall
    /\ calls = IdleCalls
    /\ competitors_file = CompetitorsList(<<>>)

AddCompetitor ==
    \E name \in CompetitorNames :
        LET writes == ~name_exists(load_competitors(competitors_file), name)
        IN  \E io \in IF writes THEN IOs ELSE {"unused"} :
                LET out == add_competitor(competitors_file, name, CompetitorPlatforms, now, io)
                IN  /\ competitors_file' = out.file
                    /\ last' = [op     |-> "add_competitor",
                                name   |-> name,
                                io     |-> io,
                                before |-> competitors_file,
                                ret    |-> out.ret]
                    /\ UNCHANGED <<SCHEDULED_POSTS_FILE, now, calls>>

RemoveCompetitor ==
    \E name \in CompetitorNames :
        LET writes == name_exists(load_competitors(competitors_file), name)
        IN  \E io \in IF writes THEN IOs ELSE {"unused"} :
                LET out == remove_competitor(competitors_file, name, io)
                IN  /\ competitors_file' = out.file
                    /\ last' = [op     |-> "remove_competitor",
                                name   |-> name,
                                io     |-> io,
                                before |-> competitors_file,
                                ret    |-> out.ret]
                    /\ UNCHANGED <<SCHEDULED_POSTS_FILE, now, calls>>

NextCompetitors == AddCompetitor \/ RemoveCompetitor \/ Tick

SpecCompetitors == InitCompetitors /\ [][NextCompetitors]_vars

(* ---------------------- the countdown over many durations --------------- *)

(* schedule times from the first minute of day 1 to the last of day 3 *)
CountdownTimes ==
    { <<d, h, m>> : d \in {1, 2, 3}, h \in {0, 2, 23}, m \in {0, 1, 5, 6, 7, 59} }

InitCountdown ==
    /\ now = 0
    /\ SCHEDULED_POSTS_FILE = FileList(<<>>)
    /\ last = NoCall
    /\ calls = IdleCalls
    /\ competitors_file = CompetitorsList(<<>>)

(* schedule_post on the empty collection: t is the reading of line 212,    *)
(* t3 the reading of line 244 the countdown is computed from               *)
CountdownSchedule ==
    /\ SCHEDULED_POSTS_FILE = FileList(<<>>)
    /\ \E schedule_time \in CountdownTimes, post_id \in Ids, d3 \in Drifts :
        LET t3  == now + d3
            out == schedule_post(SCHEDULED_POSTS_FILE, "Launch day!", OverlapPlatforms,
                                 schedule_time, "", now, now, t3, post_id, "ok")
        IN  /\ t3 <= ClockEnd
            /\ SCHEDULED_POSTS_FILE' = out.file
            /\ now' = t3
            /\ UNCHANGED <<calls, competitors_file>>
            /\ last' = [op            |-> "schedule_post",
                        content       |-> "Launch day!",
                        platforms     |-> OverlapPlatforms,
                        schedule_time |-> schedule_time,
                        media_url     |-> "",
                        t             |-> now,
                        t3            |-> t3,
                        io            |-> "ok",
                        before        |-> SCHEDULED_POSTS_FILE,
                        ret           |-> out.ret]

(* manage_scheduled_posts("list"): t is the reading of line 596 *)
CountdownList ==
    LET out == manage_scheduled_posts(SCHEDULED_POSTS_FILE, <<"list">>, "", now, "unused")
    IN  /\ SCHEDULED_POSTS_FILE' = out.file
        /\ now' = now
        /\ UNCHANGED <<calls, competitors_file>>
        /\ last' = [op      |-> "manage_scheduled_posts",
                    action  |-> <<"list">>,
                    post_id |-> "",
                    t       |-> now,
                    io      |-> "unused",
                    before  |-> SCHEDULED_POSTS_FILE,
                    ret     |-> out.ret]

NextCountdown == Tick \/ CountdownSchedule \/ CountdownList

SpecCountdown == InitCountdown /\ [][NextCountdown]_vars

(* ------------------------- vocabulary of the claims --------------------- *)

posts == SCHEDULED_POSTS_FILE.posts

(* the platform enum as the specification names it *)
PlatformEnum == { <<"twitter">>, <<"facebook">>, <<"instagram">>, <<"linkedin">> }

(* the error results of the two tools *)
ErrorResults ==
    {"InvalidFormat", "PastSchedule", "InvalidPlatform", "NotFound", "NotImplemented",
     "PostIdRequired", "InvalidAction"}

IsSchedule(call) == call.op = "schedule_post"

IsManage(call, act) == call.op = "manage_scheduled_posts" /\ lower(call.action) = <<act>>

(* a cancel call that names a post id *)
IsCancel(call) == IsManage(call, "cancel") /\ call.post_id # ""

(* the call found a collection to work on: no file yet, or a JSON list *)
HadCollection(call) == call.before.kind \in {"absent", "list"}

WithId(ps, id) == {i \in 1..Len(ps) : ps[i].id = id}

(* a key that is missing, or holds None *)
Unset(post, key) == key \notin DOMAIN post \/ post[key] = None

(* ------------------------------- claims -------------------------------- *)

(* C1: when exactly one record of the collection has the id and it is      *)
(* scheduled, a cancel of that id whose save works returns success, and a  *)
(* second cancel of the same id right after it returns NotFound.           *)
C1_CancelTwice ==
    [][ (last' # last /\ IsCancel(last') /\ last'.before.kind = "list"
          /\ Cardinality(WithId(last'.before.posts, last'.post_id)) = 1)
        => /\ (\A i \in WithId(last'.before.posts, last'.post_id) :
                  last'.before.posts[i].status = "scheduled" /\ last'.io = "ok")
              => last'.ret.kind = "Cancelled"
           /\ (IsCancel(last) /\ last.post_id = last'.post_id
                  /\ last.ret.kind = "Cancelled")
              => last'.ret.kind = "NotFound" ]_vars

(* the second cancel of C1 has run: it answered NotFound for an id whose   *)
(* single record the first cancel had turned to cancelled                  *)
C1_Witness ==
    /\ IsCancel(last) /\ last.ret.kind = "NotFound"
    /\ Cardinality(WithId(last.before.posts, last.post_id)) = 1
    /\ \A i \in WithId(last.before.posts, last.post_id) :
          /\ last.before.posts[i].status = "cancelled"
          /\ "cancelled_at" \in DOMAIN last.before.posts[i]

(* C2: no step changes the status of a record that is cancelled or        *)
(* posted, and the only status change a step makes is scheduled ->         *)
(* cancelled.                                                              *)
C2_OneWay ==
    [][ \A i \in 1..Len(posts) :
            i <= Len(posts') =>
                /\ posts[i].status # "scheduled" => posts'[i].status = posts[i].status
                /\ posts'[i].status # posts[i].status
                     => posts[i].status = "scheduled" /\ posts'[i].status = "cancelled"
      ]_vars

(* a cancel was tried on the id of a record that was already cancelled,    *)
(* other records were changed by calls, and the record is still cancelled  *)
C2_Witness ==
    /\ IsCancel(last) /\ last.before.kind = "list"
    /\ \E i \in WithId(last.before.posts, last.post_id) :
          /\ last.before.posts[i].status = "cancelled"
          /\ i <= Len(posts) /\ posts[i].status = "cancelled"
    /\ \E j \in 1..Len(posts) : posts[j].status = "scheduled"

(* C3: a cancel of an id that no record of the collection has returns      *)
(* NotFound and leaves the file as it was.                                 *)
C3_CancelUnknown ==
    (IsCancel(last) /\ HadCollection(last) /\ WithId(last.before.posts, last.post_id) = {})
    => last.ret.kind = "NotFound" /\ SCHEDULED_POSTS_FILE = last.before

(* a cancel of an unknown id has run on a collection that holds a          *)
(* scheduled record under another id                                       *)
C3_Witness ==
    /\ IsCancel(last) /\ last.before.kind = "list"
    /\ WithId(last.before.posts, last.post_id) = {}
    /\ \E i \in 1..Len(last.before.posts) : last.before.posts[i].status = "scheduled"

(* C4: a cancel of the id of a scheduled record, with a save that works,   *)
(* returns success and leaves that record cancelled with cancelled_at set  *)
(* and out of the active posts a listing shows.                            *)
C4_CancelScheduled ==
    (IsCancel(last) /\ last.before.kind = "list" /\ last.io = "ok")
    => \A i \in WithId(last.before.posts, last.post_id) :
          last.before.posts[i].status = "scheduled"
          => /\ last.ret.kind = "Cancelled"
             /\ SCHEDULED_POSTS_FILE.kind = "list" /\ i <= Len(posts)
             /\ posts[i].status = "cancelled"
             /\ "cancelled_at" \in DOMAIN posts[i]
             /\ posts[i] \notin Range(active_posts(posts))

(* C5: a creation with a parseable schedule time in the future and valid   *)
(* platforms, on a loadable file and with a save that works, succeeds; and *)
(* every successful creation appends a record whose status is scheduled    *)
(* and whose cancelled_at and posted_at are unset.                         *)
C5_NewRecord ==
    IsSchedule(last)
    => /\ ( /\ strptime(last.schedule_time).ok
            /\ strptime(last.schedule_time).t > last.t
            /\ Range(platform_list(last.platforms)) \subseteq PlatformEnum
            /\ HadCollection(last) /\ last.io = "ok" )
          => last.ret.kind = "Scheduled"
       /\ last.ret.kind = "Scheduled"
          => /\ SCHEDULED_POSTS_FILE.kind = "list"
             /\ Len(posts) = Len(last.before.posts) + 1
             /\ posts[Len(posts)].status = "scheduled"
             /\ Unset(posts[Len(posts)], "cancelled_at")
             /\ Unset(posts[Len(posts)], "posted_at")

(* a creation has succeeded on a collection that already held a record *)
C5_Witness ==
    IsSchedule(last) /\ last.ret.kind = "Scheduled" /\ Len(last.before.posts) > 0

(* C6: a creation whose schedule time parses and is not after the clock    *)
(* reading returns PastSchedule, whatever the platforms, and leaves the    *)
(* file as it was.                                                         *)
C6_PastSchedule ==
    (IsSchedule(last) /\ strptime(last.schedule_time).ok
        /\ strptime(last.schedule_time).t <= last.t)
    => last.ret.kind = "PastSchedule" /\ SCHEDULED_POSTS_FILE = last.before

(* a creation was refused for a schedule time equal to the clock reading,  *)
(* with platforms that are invalid as well, on a file that holds a record  *)
C6_Witness ==
    /\ IsSchedule(last) /\ last.ret.kind = "PastSchedule"
    /\ strptime(last.schedule_time).t = last.t
    /\ ~(Range(platform_list(last.platforms)) \subseteq PlatformEnum)
    /\ Len(last.before.posts) > 0

(* C7: a creation with a parseable future schedule time and a platforms    *)
(* text with a token outside the enum (trimmed, lowercased) returns        *)
(* InvalidPlatform with exactly the offending tokens, in their order, and  *)
(* leaves the file as it was.                                              *)
C7_InvalidPlatform ==
    (IsSchedule(last) /\ strptime(last.schedule_time).ok
        /\ strptime(last.schedule_time).t > last.t
        /\ ~(Range(platform_list(last.platforms)) \subseteq PlatformEnum))
    => /\ last.ret.kind = "InvalidPlatform"
       /\ last.ret.invalid
            = SelectSeq(platform_list(last.platforms), LAMBDA p : p \notin PlatformEnum)
       /\ SCHEDULED_POSTS_FILE = last.before

(* a creation was refused for "Bogus, ,twitter": two offending tokens, one *)
(* of them empty, and a valid one that is not reported                     *)
C7_Witness ==
    /\ IsSchedule(last) /\ last.ret.kind = "InvalidPlatform"
    /\ last.ret.invalid = << <<"bogus">>, <<>> >>
    /\ <<"twitter">> \in Range(platform_list(last.platforms))
    /\ Len(last.before.posts) > 0

(* C8: a listing that follows a successful creation shows the new record   *)
(* exactly once.                                                           *)
C8_ListedOnce ==
    [][ (IsSchedule(last) /\ last.ret.kind = "Scheduled"
          /\ last' # last /\ IsManage(last', "list"))
        => /\ last'.ret.kind = "Listing"
           /\ Cardinality({n \in 1..Len(last'.ret.entries) :
                             last'.ret.entries[n]
                               = list_entry(posts[Len(posts)], last'.t)}) = 1 ]_vars

(* C9: a call that returns one of the error results leaves the file as it  *)
(* was before the call.                                                    *)
C9_NoPartialMutation ==
    (last.op # "none" /\ last.ret.kind \in ErrorResults)
    => SCHEDULED_POSTS_FILE = last.before

(* an error result was returned by a call on a collection that holds       *)
(* records                                                                 *)
C9_Witness ==
    /\ last.op # "none" /\ last.ret.kind \in ErrorResults
    /\ last.before.kind = "list" /\ Len(last.before.posts) > 0

(* C10: no two records of the collection share an id. *)
C10_UniqueIds ==
    \A i, j \in 1..Len(posts) : posts[i].id = posts[j].id => i = j

(* a creation whose arguments pass the three validations of lines 210-221 *)
ValidCreate(call) ==
    /\ IsSchedule(call)
    /\ strptime(call.schedule_time).ok
    /\ strptime(call.schedule_time).t > call.t
    /\ Range(platform_list(call.platforms)) \subseteq PlatformEnum

(* C11: on a malformed file the tools answer as on an empty store: a       *)
(* listing reports no posts, a cancel returns NotFound, and a valid        *)
(* creation succeeds and leaves a collection of one record.                *)
C11_MalformedAsEmpty ==
    last.op # "none" /\ last.before.kind = "malformed"
    => /\ IsManage(last, "list") => last.ret.kind = "NoPostsFound"
       /\ IsCancel(last) => last.ret.kind = "NotFound"
       /\ (ValidCreate(last) /\ last.io \in {"ok", "unused"})
          => /\ last.ret.kind = "Scheduled"
             /\ SCHEDULED_POSTS_FILE.kind = "list" /\ Len(posts) = 1

(* C12: with no file the tools answer as on an empty store and report no   *)
(* error: a listing reports no posts, a cancel returns NotFound, both      *)
(* leaving the file absent, and a valid creation whose save works          *)
(* succeeds and leaves a collection that holds exactly the new record.     *)
C12_AbsentAsEmpty ==
    last.op # "none" /\ last.before.kind = "absent"
    => /\ IsManage(last, "list")
          => last.ret.kind = "NoPostsFound" /\ SCHEDULED_POSTS_FILE = FileAbsent
       /\ IsCancel(last)
          => last.ret.kind = "NotFound" /\ SCHEDULED_POSTS_FILE = FileAbsent
       /\ (ValidCreate(last) /\ last.io = "ok")
          => /\ last.ret.kind = "Scheduled"
             /\ SCHEDULED_POSTS_FILE.kind = "list" /\ Len(posts) = 1
             /\ posts[1].id = last.ret.post_id
             /\ posts[1].status = "scheduled"
             /\ posts[1].platforms = platform_list(last.platforms)

(* a valid creation has run where there was no file and left one record *)
C12_Witness ==
    /\ ValidCreate(last) /\ last.before.kind = "absent"
    /\ last.ret.kind = "Scheduled" /\ Len(posts) = 1

(* C13: a call whose save failed never reports success, and what it        *)
(* reports is none of InvalidFormat, PastSchedule, InvalidPlatform,        *)
(* NotFound; a call that reports success has saved.                        *)
C13_PersistenceFailure ==
    last.op # "none"
    => /\ last.io \in {"fail_open", "fail_write"}
          => /\ last.ret.kind \notin {"Scheduled", "Cancelled"}
             /\ last.ret.kind \notin
                  {"InvalidFormat", "PastSchedule", "InvalidPlatform", "NotFound"}
       /\ last.ret.kind \in {"Scheduled", "Cancelled"}
          => /\ last.io = "ok"
             /\ SCHEDULED_POSTS_FILE.kind = "list"
             /\ SCHEDULED_POSTS_FILE # last.before

(* the save of a cancel failed after truncating a file of two records,    *)
(* and the call reported the failure                                       *)
C13_Witness ==
    /\ IsCancel(last) /\ last.io = "fail_write"
    /\ Len(last.before.posts) = 2
    /\ last.ret.kind = "ErrorManaging"
    /\ SCHEDULED_POSTS_FILE = FileMalformed

(* C14: a call with action modify, whatever the post id and the state of   *)
(* the store, reports that modify is not supported and leaves the file as  *)
(* it was.                                                                 *)
C14_ModifyUnsupported ==
    IsManage(last, "modify")
    => last.ret.kind = "NotImplemented" /\ SCHEDULED_POSTS_FILE = last.before

(* C15: two mutating calls that both load before either saves and both     *)
(* report success leave a file that is the later writer's whole collection *)
(* and holds one change, not two: the other call's update is lost.         *)
Succeeded(call) == call.pc = "done" /\ call.ret.kind \in {"Scheduled", "Cancelled"}

(* every successful creation adds a record, every successful cancellation  *)
(* adds a cancelled record                                                 *)
Changes(file) ==
    Len(file.posts)
    + Cardinality({i \in 1..Len(file.posts) : file.posts[i].status = "cancelled"})

Overlapped ==
    /\ \A p \in Procs : Succeeded(calls[p])
    /\ calls[1].snap = calls[2].snap

C15_LostUpdate ==
    Overlapped
    => /\ SCHEDULED_POSTS_FILE.kind = "list"
       /\ \E p \in Procs : SCHEDULED_POSTS_FILE = RunCall(calls[p], calls[p].snap, "ok").file
       /\ Changes(SCHEDULED_POSTS_FILE) = Changes(calls[1].snap) + 1

C15_Witness ==
    /\ Overlapped
    /\ calls[1].op = "create" /\ calls[2].op = "cancel"
    /\ Changes(SCHEDULED_POSTS_FILE) = Changes(calls[1].snap) + 1

(* C16: every stored record that is scheduled has neither cancelled_at nor *)
(* posted_at; every record that has left scheduled has exactly one of the  *)
(* two, and a cancelled record has cancelled_at and no posted_at.          *)
C16_Timestamps ==
    \A i \in 1..Len(posts) :
        LET post == posts[i] IN
        /\ post.status = "scheduled"
           => Unset(post, "cancelled_at") /\ Unset(post, "posted_at")
        /\ post.status # "scheduled"
           => Unset(post, "cancelled_at") # Unset(post, "posted_at")
        /\ post.status = "cancelled"
           => ~Unset(post, "cancelled_at") /\ Unset(post, "posted_at")

C16_Witness ==
    /\ Len(posts) = 2
    /\ posts[1].status = "cancelled" /\ posts[1].cancelled_at = ClockStep
    /\ posts[2].status = "scheduled"

(* C17: no call deletes.  Whenever a step of schedule_post or              *)
(* manage_scheduled_posts leaves a collection in the file, it has at least *)
(* as many records as before and every record that was there is still at   *)
(* its position, the same in everything but status and cancelled_at.  (A   *)
(* save that fails in mid-write leaves no collection at all: C13.)         *)
SameRecord(old, new) ==
    /\ DOMAIN old \subseteq DOMAIN new
    /\ \A k \in DOMAIN old \ {"status", "cancelled_at"} : new[k] = old[k]

C17_NoDeletion ==
    [][ SCHEDULED_POSTS_FILE'.kind = "list"
        => /\ Len(posts') >= Len(posts)
           /\ \A i \in 1..Len(posts) : SameRecord(posts[i], posts'[i]) ]_vars

(* a cancellation has run on a collection of two records, one of them      *)
(* cancelled before, and both records are still there                      *)
C17_Witness ==
    /\ IsCancel(last) /\ last.ret.kind = "Cancelled"
    /\ Len(last.before.posts) = 2 /\ Len(posts) = 2
    /\ \A i \in 1..2 : posts[i].status = "cancelled"

(* C18: nothing dispatches.  After every step no record is posted or has   *)
(* a posted_at, and the file changes only in a call; a record that was     *)
(* scheduled and past its time when a call began is shown by a list, is    *)
(* cancelled by a cancel of its id whose save works, and is otherwise      *)
(* still scheduled after the call.                                         *)
Overdue(post, t) == post.status = "scheduled" /\ strptime(post.schedule_time).t <= t

NotDispatched ==
    /\ \A i \in 1..Len(posts) :
          posts[i].status # "posted" /\ Unset(posts[i], "posted_at")
    /\ (last.op # "none" /\ last.before.kind = "list")
       => \A i \in 1..Len(last.before.posts) :
            LET post == last.before.posts[i] IN
            Overdue(post, last.t)
            => /\ IsManage(last, "list")
                  => /\ last.ret.kind = "Listing"
                     /\ \E n \in 1..Len(last.ret.entries) : last.ret.entries[n].id = post.id
               /\ (IsCancel(last) /\ last.post_id = post.id /\ last.io = "ok")
                  => /\ last.ret.kind = "Cancelled"
                     /\ Cardinality(WithId(last.before.posts, post.id)) = 1
                        => posts[i].status = "cancelled"
               /\ SCHEDULED_POSTS_FILE.kind = "list"
                  => \/ posts[i].status = "scheduled"
                     \/ IsCancel(last) /\ last.post_id = post.id
                          /\ last.ret.kind = "Cancelled"

C18_NeverDispatched ==
    [][ /\ last' = last => SCHEDULED_POSTS_FILE' = SCHEDULED_POSTS_FILE
        /\ NotDispatched' ]_vars

(* a record two clock steps past its time was cancelled, next to a record  *)
(* as late as it that is still scheduled                                   *)
C18_Witness ==
    /\ IsCancel(last) /\ last.ret.kind = "Cancelled" /\ last.t = 2 * ClockStep
    /\ \E i, j \in 1..Len(posts) :
          /\ Overdue(last.before.posts[i], last.t - ClockStep)
          /\ posts[i].status = "cancelled"
          /\ Overdue(posts[j], last.t)

(* C19: the countdown of a positive remaining duration of d seconds shows  *)
(* days = d div 86400, hours = (d mod 86400) div 3600 and minutes =        *)
(* (d mod 3600) div 60, leaving out the parts that are 0; for a schedule   *)
(* time 1 day 2 hours 5 minutes after the clock reading the countdown is   *)
(* computed from it shows 1, 2 and 5.                                      *)
Breakdown(d) ==
    [days    |-> d \div SecondsPerDay,
     hours   |-> (d % SecondsPerDay) \div SecondsPerHour,
     minutes |-> (d % SecondsPerHour) \div SecondsPerMinute]

Shown(b, units, none) ==
    LET parts == (IF b.days > 0 THEN << <<b.days, units[1]>> >> ELSE <<>>)
                 \o (IF b.hours > 0 THEN << <<b.hours, units[2]>> >> ELSE <<>>)
                 \o (IF b.minutes > 0 THEN << <<b.minutes, units[3]>> >> ELSE <<>>)
    IN  IF parts = <<>> THEN << <<0, none>> >> ELSE parts

Example == SecondsPerDay + 2 * SecondsPerHour + 5 * SecondsPerMinute

(* the general rule of the claim, for a remaining duration d *)
CountdownOf(d, shown, units, none) ==
    d > 0 => shown = Shown(Breakdown(d), units, none)

(* the example of the claim, for a schedule time d after the reading "now" *)
ExampleOf(d, shown, units) ==
    d = Example => shown = << <<1, units[1]>>, <<2, units[2]>>, <<5, units[3]>> >>

ListedCountdowns ==
    (IsManage(last, "list") /\ last.ret.kind = "Listing")
    => \A n \in 1..Len(last.ret.entries) :
          LET entry == last.ret.entries[n]
              d     == strptime(entry.schedule_time).t - last.t
          IN  /\ CountdownOf(d, entry.time_until, <<"d", "h", "m">>, "<1m")
              /\ ExampleOf(d, entry.time_until, <<"d", "h", "m">>)

LongUnits == <<"day", "hour", "minute">>

C19_Countdown ==
    /\ (IsSchedule(last) /\ last.ret.kind = "Scheduled")
       => LET d == strptime(last.schedule_time).t - last.t3
          IN  /\ CountdownOf(d, last.ret.time_until, LongUnits, "less than a minute")
              /\ ExampleOf(d, last.ret.time_until, LongUnits)
    /\ ListedCountdowns

(* the example measured from the reading the call began with (line 212),   *)
(* the rule from the remaining duration                                    *)
C19_FromCallReading ==
    /\ (IsSchedule(last) /\ last.ret.kind = "Scheduled")
       => /\ CountdownOf(strptime(last.schedule_time).t - last.t3, last.ret.time_until,
                         LongUnits, "less than a minute")
          /\ ExampleOf(strptime(last.schedule_time).t - last.t, last.ret.time_until,
                       LongUnits)
    /\ ListedCountdowns

(* a post was scheduled 1 day 2 hours 5 minutes after the reading of its   *)
(* countdown, which was taken a clock step after the call began            *)
C19_Witness ==
    /\ IsSchedule(last) /\ last.ret.kind = "Scheduled"
    /\ last.t3 > last.t
    /\ strptime(last.schedule_time).t - last.t3 = Example
    /\ last.ret.time_until = << <<1, "day">>, <<2, "hour">>, <<5, "minute">> >>

(* C20: every scheduled record is in the listing, and its entry reads      *)
(* OVERDUE exactly when its schedule time minus the clock reading of the   *)
(* listing is zero or negative.                                            *)
C20_Overdue ==
    (IsManage(last, "list") /\ last.ret.kind = "Listing")
    => /\ Len(last.ret.entries) = Len(active_posts(last.before.posts))
       /\ \A n \in 1..Len(last.ret.entries) :
             LET entry == last.ret.entries[n] IN
             /\ entry.schedule_time = active_posts(last.before.posts)[n].schedule_time
             /\ entry.time_until = << <<0, "OVERDUE">> >>
                <=> strptime(entry.schedule_time).t - last.t <= 0

(* a record was listed at the very second of its schedule time *)
C20_Witness ==
    /\ IsManage(last, "list") /\ last.ret.kind = "Listing"
    /\ \E n \in 1..Len(last.ret.entries) :
          /\ strptime(last.ret.entries[n].schedule_time).t = last.t
          /\ last.ret.entries[n].time_until = << <<0, "OVERDUE">> >>

(* C21: a load that follows a save that worked returns, without an error,  *)
(* the collection that was saved: the same records with the same values in *)
(* the same order, and the empty collection for the empty collection.      *)
Saves == {"save_json_data", "save_json"}

Loads == {"load_json_data", "load_json"}

C21_RoundTrip ==
    [][ (last.op \in Saves /\ last.ok /\ last'.op \in Loads)
        => last'.ok /\ last'.data = last.data ]_vars

(* a collection of two records, one with a quote, a newline and a letter   *)
(* outside ASCII in its content, was written by save_json_data and read    *)
(* back                                                                    *)
C21_Witness ==
    /\ last.op = "load_json_data" /\ last.ok
    /\ SCHEDULED_POSTS_FILE.kind = "text"
    /\ SCHEDULED_POSTS_FILE.text = json_dump(last.data, 0, TRUE)
    /\ Len(last.data.items) = 2
    /\ \E i \in 1..2 : "\"" \in Range(last.data.items[i].items[2].items[1].s)

(* C22: the platforms of every stored record are at least one, all of them *)
(* among twitter, facebook, instagram and linkedin, and none of them twice. *)
PlatformsKnown ==
    \A i \in 1..Len(posts) :
        /\ posts[i].platforms # <<>>
        /\ Range(posts[i].platforms) \subseteq PlatformEnum

C22_Platforms ==
    /\ PlatformsKnown
    /\ \A i \in 1..Len(posts) :
          \A m, n \in 1..Len(posts[i].platforms) :
              m # n => posts[i].platforms[m] # posts[i].platforms[n]

(* C23: the schedule time of every stored record is later than its         *)
(* created_at, and a schedule time equal to the clock reading of the call  *)
(* is refused as not in the future.                                        *)
EqualInstantRefused ==
    (IsSchedule(last) /\ strptime(last.schedule_time).ok
       /\ strptime(last.schedule_time).t = last.t)
    => last.ret.kind = "PastSchedule"

C23_FutureAtCreation ==
    /\ \A i \in 1..Len(posts) :
          strptime(posts[i].schedule_time).t > posts[i].created_at
    /\ EqualInstantRefused

(* C24: a successful cancel changes one record and no other: the first in  *)
(* stored order that has the id and is scheduled.  Records with the id     *)
(* that are not scheduled are passed over, so among records sharing an id  *)
(* each successful cancel leaves one scheduled record fewer.               *)
Changed(before, after) == {i \in 1..Len(before) : after[i] # before[i]}

ScheduledWithId(ps, id) == {i \in WithId(ps, id) : ps[i].status = "scheduled"}

C24_CancelsFirstMatch ==
    (IsCancel(last) /\ last.ret.kind = "Cancelled")
    => /\ Len(posts) = Len(last.before.posts)
       /\ \E i \in ScheduledWithId(last.before.posts, last.post_id) :
             /\ Changed(last.before.posts, posts) = {i}
             /\ \A j \in ScheduledWithId(last.before.posts, last.post_id) : i <= j
             /\ posts[i].status = "cancelled"
       /\ Cardinality(ScheduledWithId(posts, last.post_id))
            = Cardinality(ScheduledWithId(last.before.posts, last.post_id)) - 1

(* two records share an id; the first had been cancelled before, and the   *)
(* cancel passed over it and cancelled the second                          *)
C24_Witness ==
    /\ IsCancel(last) /\ last.ret.kind = "Cancelled"
    /\ Len(posts) = 2
    /\ posts[1].id = posts[2].id
    /\ last.before.posts[1].status = "cancelled"
    /\ posts[1] = last.before.posts[1]
    /\ last.before.posts[2].status = "scheduled" /\ posts[2].status = "cancelled"

(* C25: a successful cancel leaves every record but its target as it was   *)
(* and in its place, and in the target changes nothing but status and      *)
(* cancelled_at: id, content, platforms, schedule_time, media_url,         *)
(* created_at and posted_at keep their values.                             *)
KeptFields == {"id", "content", "platforms", "schedule_time", "media_url",
               "created_at", "posted_at"}

C25_CancelFrame ==
    (IsCancel(last) /\ last.ret.kind = "Cancelled")
    => /\ Len(posts) = Len(last.before.posts)
       /\ \A i \in 1..Len(posts) :
             \/ posts[i] = last.before.posts[i]
             \/ /\ last.before.posts[i].status = "scheduled"
                /\ last.before.posts[i].id = last.post_id
                /\ DOMAIN posts[i] = DOMAIN last.before.posts[i] \cup {"cancelled_at"}
                /\ \A k \in KeptFields : posts[i][k] = last.before.posts[i][k]
                /\ posts[i].status = "cancelled" /\ posts[i].cancelled_at = last.t

(* the second of two records was cancelled a clock step after both were    *)
(* created, next to a first record that stays scheduled                    *)
C25_Witness ==
    /\ IsCancel(last) /\ last.ret.kind = "Cancelled" /\ last.t = ClockStep
    /\ Len(posts) = 2
    /\ posts[1] = last.before.posts[1] /\ posts[1].status = "scheduled"
    /\ posts[2].status = "cancelled" /\ posts[2].created_at = 0

(* C26: a list call leaves the file as it was, and what it returns are the *)
(* records with status scheduled and no others, one entry for each, in     *)
(* the order in which they are stored.                                     *)
ScheduledAt(ps) == {i \in 1..Len(ps) : ps[i].status = "scheduled"}

(* the index of the n-th scheduled record of ps *)
NthScheduled(ps, n) ==
    CHOOSE i \in ScheduledAt(ps) : Cardinality({j \in ScheduledAt(ps) : j <= i}) = n

C26_ListActive ==
    IsManage(last, "list")
    => /\ SCHEDULED_POSTS_FILE = last.before
       /\ ScheduledAt(last.before.posts) = {} <=> last.ret.kind # "Listing"
       /\ last.ret.kind = "Listing"
          => /\ Len(last.ret.entries) = Cardinality(ScheduledAt(last.before.posts))
             /\ \A n \in 1..Len(last.ret.entries) :
                   LET post == last.before.posts[NthScheduled(last.before.posts, n)]
                   IN  /\ last.ret.entries[n].id = post.id
                       /\ last.ret.entries[n].content = post.content
                       /\ last.ret.entries[n].platforms = post.platforms
                       /\ last.ret.entries[n].schedule_time = post.schedule_time

(* a listing of a collection whose first record is cancelled and whose     *)
(* second is scheduled, under another id                                   *)
C26_Witness ==
    /\ IsManage(last, "list") /\ last.ret.kind = "Listing"
    /\ Len(posts) = 2 /\ posts[1].status = "cancelled" /\ posts[2].status = "scheduled"
    /\ posts[1].id # posts[2].id
    /\ Len(last.ret.entries) = 1 /\ last.ret.entries[1].id = posts[2].id

(* C29: after a successful creation the collection is the collection of    *)
(* before, record for record and in the same order, followed by one new    *)
(* record, the one whose id the call returned.                             *)
C29_CreateAppends ==
    (IsSchedule(last) /\ last.ret.kind = "Scheduled")
    => /\ Len(posts) = Len(last.before.posts) + 1
       /\ SubSeq(posts, 1, Len(posts) - 1) = last.before.posts
       /\ posts[Len(posts)].id = last.ret.post_id
       /\ posts[Len(posts)].status = "scheduled"

(* a creation has appended a record under a new id after a record that had *)
(* been cancelled                                                          *)
C29_Witness ==
    /\ IsSchedule(last) /\ last.ret.kind = "Scheduled"
    /\ Len(posts) = 2
    /\ posts[1] = last.before.posts[1] /\ posts[1].status = "cancelled"
    /\ posts[2].id # posts[1].id

(* C28: schedule_post answers the first check that fails, in the order     *)
(* format of the schedule time, schedule time in the future, platforms,    *)
(* whatever the later checks would say and whatever the file holds; a call *)
(* that fails a check leaves the file as it was.                           *)
C28_ValidationOrder ==
    IsSchedule(last)
    => LET parsed  == strptime(last.schedule_time)
           invalid == Range(platform_list(last.platforms)) \ PlatformEnum
       IN  /\ ~parsed.ok => last.ret.kind = "InvalidFormat"
           /\ (parsed.ok /\ parsed.t <= last.t) => last.ret.kind = "PastSchedule"
           /\ (parsed.ok /\ parsed.t > last.t /\ invalid # {})
              => last.ret.kind = "InvalidPlatform"
           /\ (~parsed.ok \/ parsed.t <= last.t \/ invalid # {})
              => SCHEDULED_POSTS_FILE = last.before

(* a schedule time that does not parse came with a platform that is not    *)
(* known, on a file that holds a record                                    *)
C28_Witness ==
    /\ IsSchedule(last) /\ ~strptime(last.schedule_time).ok
    /\ ~(Range(platform_list(last.platforms)) \subseteq PlatformEnum)
    /\ last.ret.kind = "InvalidFormat"
    /\ Len(posts) >= 1

(* C30: no two competitors in the file have names that are equal ignoring  *)
(* case; an add of a name that is tracked, in whatever spelling, and a     *)
(* remove of a name that is not tracked return an error and leave the file *)
(* as it was.                                                              *)
Tracked(file, name) ==
    \E i \in 1..Len(file.competitors) : lower(file.competitors[i].name) = lower(name)

C30_UniqueNames ==
    /\ \A i, j \in 1..Len(competitors_file.competitors) :
          i # j => lower(competitors_file.competitors[i].name)
                     # lower(competitors_file.competitors[j].name)
    /\ (last.op = "add_competitor" /\ Tracked(last.before, last.name))
       => last.ret.kind = "AlreadyExists" /\ competitors_file = last.before
    /\ (last.op = "remove_competitor" /\ ~Tracked(last.before, last.name))
       => last.ret.kind = "NotFound" /\ competitors_file = last.before

(* an add of ACME was refused while Acme and another competitor are        *)
(* tracked                                                                 *)
C30_Witness ==
    /\ last.op = "add_competitor" /\ last.name = <<"ACME">>
    /\ last.ret.kind = "AlreadyExists"
    /\ Len(competitors_file.competitors) = 2
    /\ \E i \in 1..2 : competitors_file.competitors[i].name = <<"Acme">>

(* C27: on one event loop no call runs between the load and the save of    *)
(* another: two calls are never both between their load and their save,    *)
(* and when both report success one of them loaded what the other had      *)
(* saved, so the file holds both changes.                                  *)
C27_Serialised ==
    /\ ~(\A p \in Procs : calls[p].pc = "loaded")
    /\ (\A p \in Procs : Succeeded(calls[p]))
       => \E p, q \in Procs :
             /\ p # q
             /\ calls[q].snap = RunCall(calls[p], calls[p].snap, "ok").file
             /\ SCHEDULED_POSTS_FILE = RunCall(calls[q], calls[q].snap, "ok").file
             /\ Changes(SCHEDULED_POSTS_FILE) = Changes(calls[p].snap) + 2

(* a creation and then a cancellation of the record created both reported  *)
(* success, and the file holds the record, cancelled                       *)
C27_Witness ==
    /\ \A p \in Procs : Succeeded(calls[p])
    /\ calls[1].op = "create" /\ calls[2].op = "cancel"
    /\ calls[1].snap = FileList(<<>>)
    /\ Len(posts) = 1 /\ posts[1].status = "cancelled"

====
